---- MODULE Spec2Model ----
(***************************************************************************)
(* Model of application/controller.py (todomvc-selva-htmx): the Todo       *)
(* table, the TodoService calls the controller awaits, and the request     *)
(* handlers of Controller, one step per awaited database call.  One        *)
(* request is followed through its handler; the requests served            *)
(* concurrently with it appear through the only thing they share with it,  *)
(* their service calls on the table, which take effect between its steps.  *)
(***************************************************************************)
EXTENDS Naturals, Sequences, FiniteSets

VARIABLES
    todos,      \* the Todo table: a set of rows [id, title, is_completed]
    next_id,    \* the next id the persistence layer assigns
    pc,         \* where the request's handler is suspended
    frame,      \* the handler's parameters and local variables
    response,   \* what the request has sent (headers, body)
    hist,       \* history of the request, used only by the properties
    titles      \* the titles clients submit in this run

vars == <<todos, next_id, pc, frame, response, hist, titles>>

(* ------------------------------ bounds -------------------------------- *)

\* Number of Todos ever created (ids are never reused).
MaxTodos == 2

(* --------------------------- Python values ---------------------------- *)

\* An optional value: <<>> is None (or an absent header / body field),
\* <<v>> is the value v.
None == <<>>

Some(v) == <<v>>

IsNone(o) == o = <<>>

\* Truthiness of an optional string: None and "" are falsy.
TruthyStr(o) == o # <<>> /\ o[1] # ""

\* Truthiness of an optional list: None and [] are falsy.
TruthyList(o) == o # <<>> /\ Len(o[1]) > 0

(* ------------------------ Todo table and service ---------------------- *)

Todo(i, t, c) == [id |-> i, title |-> t, is_completed |-> c]

Ids(S) == {t.id : t \in S}

RECURSIVE OrderById(_)
\* The rows of S as a list, in id order.
OrderById(S) ==
    IF S = {} THEN <<>>
    ELSE LET m == CHOOSE t \in S : \A u \in S : t.id <= u.id
         IN  <<m>> \o OrderById(S \ {m})

service_get_all(S) == OrderById(S)

service_get_active(S) == service_get_all({t \in S : ~t.is_completed})

service_get_completed(S) == service_get_all({t \in S : t.is_completed})

\* count(): flt = None; count(is_completed=b): flt = Some(b).
service_count(S, flt) ==
    IF IsNone(flt) THEN Cardinality(S)
    ELSE Cardinality({t \in S : t.is_completed = flt[1]})

\* save(todo): the persistence layer assigns the id i.
service_save(S, i, todo) == S \cup {Todo(i, todo.title, todo.is_completed)}

service_edit(S, i, title) ==
    {IF t.id = i THEN Todo(t.id, title, t.is_completed) ELSE t : t \in S}

service_complete(S, i, value) ==
    {IF t.id = i THEN Todo(t.id, t.title, value) ELSE t : t \in S}

service_complete_all(S, value) == {Todo(t.id, t.title, value) : t \in S}

service_delete(S, i) == {t \in S : t.id # i}

service_delete_completed(S) == {t \in S : ~t.is_completed}

(* ------------------------------ inputs -------------------------------- *)

\* Values a request may carry in its x-filter header (None: header absent).
XFilterValues == {None, Some(""), Some("all"), Some("active"),
                  Some("completed"), Some("other")}

\* Values a request may carry in its HX-Request header.
HxRequestValues == {None, Some(""), Some("true")}

\* JSON bodies of POST todo and PUT todo/:id: title is required, id and
\* completed are optional.
TodoBodies ==
    [title : titles, id : {None, Some(1)},
     completed : {None, Some(FALSE), Some(TRUE)}]

\* JSON bodies of the two complete endpoints: completed is optional.
CompleteBodies == [completed : {None, Some(FALSE), Some(TRUE)}]

\* class TodoDTO: id defaults to 0, completed to False.
TodoDTO(body) ==
    [id        |-> IF IsNone(body.id) THEN 0 ELSE body.id[1],
     title     |-> body.title,
     completed |-> IF IsNone(body.completed) THEN FALSE ELSE body.completed[1]]

\* class TodoCompleteDTO: completed defaults to False.
TodoCompleteDTO(body) ==
    [completed |-> IF IsNone(body.completed) THEN FALSE ELSE body.completed[1]]

(* ------------------------------ templates ----------------------------- *)

IndexPage == "index.jinja"
Filters   == "components/filters.jinja"
Main      == "components/main.jinja"
Header    == "components/header.jinja"
Footer    == "components/footer.jinja"

\* template.render(name, context): the renderer is external; its output is
\* kept as the pair it is computed from.
Render(name, context) == [template |-> name, context |-> context]

RECURSIVE RenderAll(_, _)
RenderAll(names, context) ==
    IF names = <<>> THEN <<>>
    ELSE <<Render(Some(Head(names)), context)>> \o RenderAll(Tail(names), context)

(* ---------------------------- get_context ----------------------------- *)

\* request.headers.get("x-filter", "all")
HeaderFilter(x_filter) == IF IsNone(x_filter) THEN "all" ELSE x_filter[1]

\* A slip: the filter ignored, every Todo listed.
FilterQueryAll(S, todo_filter) == service_get_all(S)

\* The list query get_context awaits for a filter.
FilterQuery(S, todo_filter) ==
    IF todo_filter = "active" THEN service_get_active(S)
    ELSE IF todo_filter = "completed" THEN service_get_completed(S)
    ELSE service_get_all(S)

CountAll(S) == service_count(S, None)

\* A slip: the active count taken without its is_completed argument.
CountActiveUnfiltered(S) == service_count(S, None)

CountActive(S) == service_count(S, Some(FALSE))

CountCompleted(S) == service_count(S, Some(TRUE))

\* The dict get_context returns.
ContextDict(total, active, completed, filtered, todo_filter) ==
    [todo_count           |-> total,
     active_todo_count    |-> active,
     completed_todo_count |-> completed,
     todos                |-> filtered,
     filter               |-> IF todo_filter = "" THEN "all" ELSE todo_filter]

\* get_context run with no other request in between, on table S.
get_context(S, x_filter) ==
    LET todo_filter == HeaderFilter(x_filter)
    IN  ContextDict(CountAll(S), CountActive(S), CountCompleted(S),
                    FilterQuery(S, todo_filter), todo_filter)


(* ------------------------- request bookkeeping ------------------------ *)

\* A handler that is not running: no parameters, no locals.
IdleFrame ==
    [x_filter |-> None, plan |-> "none", template |-> None,
     templates_oob |-> None, todo_filter |-> "", filtered_todos |-> <<>>,
     todo_count |-> 0, active_todo_count |-> 0, error |-> "none"]

NoResponse == [sent |-> FALSE, content_type |-> None, body |-> <<>>]

\* Nothing submitted: no path id, no title, no completed field.
NoInput == [todo_id |-> 0, title |-> "", completed |-> None]

\* History of the request: which endpoint serves it; the headers it
\* carried; what it submitted (kept until get_context starts; complete_all
\* keeps its completed field); the arguments of a direct htmx_response
\* call; the counts before its mutation; how often get_context ran and
\* whether that was after its mutation; and the last stage ("mut": after
\* its mutation, "list": after its list query, "count": after its first
\* count) at which another request changed the table under it.
NoHist ==
    [endpoint |-> "none", x_filter |-> None, hx_request |-> None,
     input |-> NoInput, call |-> [template |-> None, templates_oob |-> None],
     pre_total |-> 0, pre_completed |-> 0, mutated |-> FALSE,
     ctx_calls |-> 0, ctx_after |-> FALSE, intf |-> "none"]

Window ==
    IF pc = "get_context" /\ hist.mutated THEN "mut"
    ELSE IF pc = "count" THEN "list"
    ELSE IF pc \in {"count_active", "count_completed"} THEN "count"
    ELSE "same"

\* hist after another request has set the table to S2.
Noted(S2) ==
    IF S2 # todos /\ Window # "same" THEN [hist EXCEPT !.intf = Window] ELSE hist

(* --------------------------- htmx_response ---------------------------- *)

\* assert template or templates_oob
HtmxAssert(template, templates_oob) ==
    TruthyStr(template) \/ TruthyList(templates_oob)

\* htmx_response up to its first await: the assertion, then get_context.
HtmxEntry(template, templates_oob, x_filter) ==
    IF HtmxAssert(template, templates_oob)
    THEN [pc |-> "get_context",
          frame |-> [IdleFrame EXCEPT !.x_filter = x_filter, !.plan = "htmx",
                                      !.template = template,
                                      !.templates_oob = templates_oob]]
    ELSE [pc |-> "failed",
          frame |-> [IdleFrame EXCEPT !.error = "AssertionError"]]

\* context["oob"] = True
WithOob(context) ==
    [todo_count           |-> context.todo_count,
     active_todo_count    |-> context.active_todo_count,
     completed_todo_count |-> context.completed_todo_count,
     todos                |-> context.todos,
     filter               |-> context.filter,
     oob                  |-> TRUE]

\* What template.render may do with a name: a named template renders; the
\* renderer's behaviour on None or "" is its own, so both outcomes are kept.
RenderOutcomes(template) ==
    IF TruthyStr(template) THEN {"ok"} ELSE {"ok", "error"}

\* htmx_response after get_context has returned context: the outcome
\* (pc, error, response) for one outcome of the primary render.  Iterating
\* templates_oob = None raises TypeError.
HtmxFinish(template, templates_oob, context, outcome) ==
    LET ctx == WithOob(context)
    IN  IF outcome = "error"
        THEN [pc |-> "failed", error |-> "TemplateError", response |-> NoResponse]
        ELSE IF IsNone(templates_oob)
        THEN [pc |-> "failed", error |-> "TypeError", response |-> NoResponse]
        ELSE [pc |-> "done", error |-> "none",
              response |-> [sent |-> TRUE, content_type |-> Some("text/html"),
                            body |-> <<Render(template, ctx)>>
                                     \o RenderAll(templates_oob[1], ctx)]]

\* index without HX-Request: template.respond(response, "index.jinja", context)
PageFinish(context) ==
    [pc |-> "done", error |-> "none",
     response |-> [sent |-> TRUE, content_type |-> Some("text/html"),
                   body |-> <<Render(Some(IndexPage), context)>>]]

(* ----------------------- what each endpoint sends --------------------- *)

HtmxPlan(template, templates_oob) ==
    [kind |-> "htmx", template |-> Some(template),
     templates_oob |-> Some(templates_oob)]

TextPlan == [kind |-> "text", template |-> None, templates_oob |-> None]

index_plan == HtmxPlan(Filters, <<Main>>)

new_todo_plan == HtmxPlan(Main, <<Footer>>)

edit_todo_plan == TextPlan

complete_todo_plan == HtmxPlan(Main, <<Footer>>)

\* A slip: complete_all answering like the other endpoints.
complete_all_plan_no_header == HtmxPlan(Main, <<Footer>>)

complete_all_plan == HtmxPlan(Main, <<Header, Footer>>)

\* A slip: delete_todo answering without htmx_response.
delete_todo_plan_text == TextPlan

delete_todo_plan == HtmxPlan(Main, <<Footer>>)

delete_completed_plan == HtmxPlan(Main, <<Footer>>)

(* ------------------- the service call of each endpoint ---------------- *)

\* A slip: the submitted completed flag dropped.
NewTodoActive(dto) == [title |-> dto.title, is_completed |-> FALSE]

\* todo = Todo(title=dto.title, is_completed=dto.completed)
NewTodo(dto) == [title |-> dto.title, is_completed |-> dto.completed]

\* await self.service.save(todo)
SaveCall(S, i, dto) == service_save(S, i, NewTodo(dto))

\* A slip: the id taken from the body instead of the path.
EditCallBodyId(S, dto, todo_id) == service_edit(S, dto.id, dto.title)

\* await self.service.edit(todo_id, dto.title)
EditCall(S, dto, todo_id) == service_edit(S, todo_id, dto.title)

\* await self.service.complete(todo_id, dto.completed)
CompleteCall(S, dto, todo_id) == service_complete(S, todo_id, dto.completed)

\* A slip: the submitted flag ignored, every Todo completed.
CompleteAllCallTrue(S, dto) == service_complete_all(S, TRUE)

\* await self.service.complete_all(dto.completed)
CompleteAllCall(S, dto) == service_complete_all(S, dto.completed)

\* await self.service.delete(todo_id)
DeleteCall(S, todo_id) == service_delete(S, todo_id)

\* A slip: the active Todos deleted instead of the completed ones.
DeleteCompletedCallActive(S) == {t \in S : t.is_completed}

\* await self.service.delete_completed()
DeleteCompletedCall(S) == service_delete_completed(S)

(* ------------------------------ actions ------------------------------- *)

Init ==
    /\ todos = {}
    /\ next_id = 1
    /\ pc = "idle"
    /\ frame = IdleFrame
    /\ response = NoResponse
    /\ hist = NoHist
    /\ titles = {"a"}

\* A mutating handler from its start to the return of its service call,
\* which leaves the table as S2, and on to the first await of its response:
\* htmx_response's assertion and get_context, or respond_text for a text
\* plan.  h is the history the request starts with.
Mutated(h, S2, plan, x_filter, text) ==
    /\ pc = "idle"
    /\ todos' = S2
    /\ IF plan.kind = "htmx"
       THEN LET e == HtmxEntry(plan.template, plan.templates_oob, x_filter)
            IN  /\ pc' = e.pc
                /\ frame' = e.frame
                /\ response' = response
       ELSE /\ pc' = "done"
            /\ frame' = frame
            /\ response' = [sent |-> TRUE, content_type |-> Some("text/plain"),
                            body |-> <<[text |-> text]>>]
    /\ hist' = [h EXCEPT !.mutated = TRUE]
    /\ UNCHANGED titles

\* GET index
index ==
    /\ pc = "idle"
    /\ \E hx_request \in HxRequestValues, x_filter \in XFilterValues :
          LET e == IF TruthyStr(hx_request)
                   THEN HtmxEntry(index_plan.template, index_plan.templates_oob,
                                  x_filter)
                   ELSE [pc |-> "get_context",
                         frame |-> [IdleFrame EXCEPT !.x_filter = x_filter,
                                                     !.plan = "page"]]
          IN  /\ pc' = e.pc
              /\ frame' = e.frame
              /\ hist' = [NoHist EXCEPT !.endpoint = "index",
                                        !.x_filter = x_filter,
                                        !.hx_request = hx_request]
    /\ UNCHANGED <<todos, next_id, response, titles>>

\* POST todo
new_todo ==
    /\ next_id <= MaxTodos
    /\ \E body \in TodoBodies, x_filter \in XFilterValues :
          LET dto == TodoDTO(body)
          IN  Mutated([NoHist EXCEPT !.endpoint = "new_todo",
                                     !.x_filter = x_filter,
                                     !.input = [todo_id |-> 0,
                                                title |-> body.title,
                                                completed |-> body.completed],
                                     !.pre_total = CountAll(todos)],
                      SaveCall(todos, next_id, dto),
                      new_todo_plan, x_filter, "")
    /\ next_id' = next_id + 1

\* PUT todo/:todo_id.  The path names an existing Todo here and in the
\* other endpoints with a path id: what the service does with an unknown
\* id is not the controller's.
edit_todo ==
    /\ \E body \in TodoBodies, todo_id \in Ids(todos) :
          LET dto == TodoDTO(body)
          IN  Mutated([NoHist EXCEPT !.endpoint = "edit_todo",
                                     !.input = [todo_id |-> todo_id,
                                                title |-> body.title,
                                                completed |-> None]],
                      EditCall(todos, dto, todo_id),
                      edit_todo_plan, None, dto.title)
    /\ UNCHANGED next_id

\* POST todo/:todo_id/complete
complete_todo ==
    /\ \E body \in CompleteBodies, todo_id \in Ids(todos),
          x_filter \in XFilterValues :
          LET dto == TodoCompleteDTO(body)
          IN  Mutated([NoHist EXCEPT !.endpoint = "complete_todo",
                                     !.x_filter = x_filter],
                      CompleteCall(todos, dto, todo_id),
                      complete_todo_plan, x_filter, "")
    /\ UNCHANGED next_id

\* POST todo/complete_all
complete_all ==
    /\ \E body \in CompleteBodies, x_filter \in XFilterValues :
          LET dto == TodoCompleteDTO(body)
          IN  Mutated([NoHist EXCEPT !.endpoint = "complete_all",
                                     !.x_filter = x_filter,
                                     !.input = [todo_id |-> 0, title |-> "",
                                                completed |-> body.completed]],
                      CompleteAllCall(todos, dto),
                      complete_all_plan, x_filter, "")
    /\ UNCHANGED next_id

\* DELETE todo/:todo_id
delete_todo ==
    /\ \E todo_id \in Ids(todos), x_filter \in XFilterValues :
          Mutated([NoHist EXCEPT !.endpoint = "delete_todo",
                                 !.x_filter = x_filter],
                  DeleteCall(todos, todo_id),
                  delete_todo_plan, x_filter, "")
    /\ UNCHANGED next_id

\* DELETE todo/completed
delete_completed ==
    /\ \E x_filter \in XFilterValues :
          Mutated([NoHist EXCEPT !.endpoint = "delete_completed",
                                 !.x_filter = x_filter,
                                 !.pre_total = CountAll(todos),
                                 !.pre_completed = CountCompleted(todos)],
                  DeleteCompletedCall(todos),
                  delete_completed_plan, x_filter, "")
    /\ UNCHANGED next_id

\* get_context up to the return of its list query.
get_context_list ==
    /\ pc = "get_context"
    /\ LET todo_filter == HeaderFilter(frame.x_filter)
       IN  frame' = [frame EXCEPT !.todo_filter = todo_filter,
                                  !.filtered_todos = FilterQuery(todos, todo_filter)]
    /\ pc' = "count"
    /\ hist' = [hist EXCEPT !.ctx_calls = @ + 1, !.ctx_after = hist.mutated,
                            !.input = IF hist.endpoint = "complete_all" THEN @
                                      ELSE NoInput]
    /\ UNCHANGED <<todos, next_id, response, titles>>

\* todo_count = await self.service.count()
get_context_count ==
    /\ pc = "count"
    /\ frame' = [frame EXCEPT !.todo_count = CountAll(todos)]
    /\ pc' = "count_active"
    /\ UNCHANGED <<todos, next_id, response, hist, titles>>

\* active_todo_count = await self.service.count(is_completed=False)
get_context_count_active ==
    /\ pc = "count_active"
    /\ frame' = [frame EXCEPT !.active_todo_count = CountActive(todos)]
    /\ pc' = "count_completed"
    /\ UNCHANGED <<todos, next_id, response, hist, titles>>

\* completed_todo_count = await self.service.count(is_completed=True), the
\* return of get_context, and the caller's rendering and response.
get_context_count_completed ==
    /\ pc = "count_completed"
    /\ LET context == ContextDict(frame.todo_count, frame.active_todo_count,
                                  CountCompleted(todos), frame.filtered_todos,
                                  frame.todo_filter)
       IN  \E outcome \in (IF frame.plan = "htmx" THEN RenderOutcomes(frame.template)
                           ELSE {"ok"}) :
              LET e == IF frame.plan = "htmx"
                       THEN HtmxFinish(frame.template, frame.templates_oob,
                                       context, outcome)
                       ELSE PageFinish(context)
              IN  /\ pc' = e.pc
                  /\ frame' = [IdleFrame EXCEPT !.error = e.error]
                  /\ response' = e.response
    /\ UNCHANGED <<todos, next_id, hist, titles>>

\* The request is over; the next one is followed.
finish ==
    /\ pc \in {"done", "failed"}
    /\ pc' = "idle"
    /\ frame' = IdleFrame
    /\ response' = NoResponse
    /\ hist' = NoHist
    /\ UNCHANGED <<todos, next_id, titles>>

(* The service calls of the requests served concurrently: each takes effect *)
(* atomically while the followed request is suspended in an await.  What    *)
(* such a request reads and sends afterwards touches nothing shared.        *)

Suspended == pc \in {"get_context", "count", "count_active", "count_completed"}

Concurrent(S2) ==
    /\ Suspended
    /\ todos' = S2
    /\ hist' = Noted(S2)
    /\ UNCHANGED <<pc, frame, response, titles>>

concurrent_new_todo ==
    /\ next_id <= MaxTodos
    /\ \E body \in TodoBodies : Concurrent(SaveCall(todos, next_id, TodoDTO(body)))
    /\ next_id' = next_id + 1

concurrent_edit_todo ==
    /\ \E body \in TodoBodies, todo_id \in Ids(todos) :
          Concurrent(EditCall(todos, TodoDTO(body), todo_id))
    /\ UNCHANGED next_id

concurrent_complete_todo ==
    /\ \E body \in CompleteBodies, todo_id \in Ids(todos) :
          Concurrent(CompleteCall(todos, TodoCompleteDTO(body), todo_id))
    /\ UNCHANGED next_id

concurrent_complete_all ==
    /\ \E body \in CompleteBodies :
          Concurrent(CompleteAllCall(todos, TodoCompleteDTO(body)))
    /\ UNCHANGED next_id

concurrent_delete_todo ==
    /\ \E todo_id \in Ids(todos) : Concurrent(DeleteCall(todos, todo_id))
    /\ UNCHANGED next_id

concurrent_delete_completed ==
    /\ Concurrent(DeleteCompletedCall(todos))
    /\ UNCHANGED next_id

Next ==
    \/ index
    \/ new_todo
    \/ edit_todo
    \/ complete_todo
    \/ complete_all
    \/ delete_todo
    \/ delete_completed
    \/ get_context_list
    \/ get_context_count
    \/ get_context_count_active
    \/ get_context_count_completed
    \/ finish
    \/ concurrent_new_todo
    \/ concurrent_edit_todo
    \/ concurrent_complete_todo
    \/ concurrent_complete_all
    \/ concurrent_delete_todo
    \/ concurrent_delete_completed

\* Requests served concurrently, all submitting the same title.
Spec == Init /\ [][Next]_vars

\* Requests served one at a time, submitting different titles.
InitSeq ==
    /\ todos = {}
    /\ next_id = 1
    /\ pc = "idle"
    /\ frame = IdleFrame
    /\ response = NoResponse
    /\ hist = NoHist
    /\ titles = {"a", "b"}

NextSeq ==
    \/ index
    \/ new_todo
    \/ edit_todo
    \/ complete_todo
    \/ complete_all
    \/ delete_todo
    \/ delete_completed
    \/ get_context_list
    \/ get_context_count
    \/ get_context_count_active
    \/ get_context_count_completed
    \/ finish

SpecSeq == InitSeq /\ [][NextSeq]_vars

\* htmx_response called with any arguments, as a caller inside the
\* controller may.
htmx_response ==
    /\ pc = "idle"
    /\ \E template \in {None, Some(""), Some(Main)},
          templates_oob \in {None, Some(<<>>), Some(<<Footer>>),
                             Some(<<Header, Footer>>)},
          x_filter \in XFilterValues :
          LET e == HtmxEntry(template, templates_oob, x_filter)
          IN  /\ pc' = e.pc
              /\ frame' = e.frame
              /\ hist' = [NoHist EXCEPT !.endpoint = "htmx_response",
                                        !.x_filter = x_filter,
                                        !.call = [template |-> template,
                                                  templates_oob |-> templates_oob]]
    /\ UNCHANGED <<todos, next_id, response, titles>>

NextUnit == NextSeq \/ htmx_response

SpecUnit == InitSeq /\ [][NextUnit]_vars

(* ----------------------------- properties ----------------------------- *)

Mutating == {"new_todo", "edit_todo", "complete_todo", "complete_all",
             "delete_todo", "delete_completed"}

\* The request has answered with templates rendered from a view context.
HasContext == pc = "done" /\ hist.endpoint # "edit_todo"

\* The view context of the response (every template is rendered from it).
Context == response.body[1].context

\* The names of the templates rendered into the response, in order.
Rendered == [i \in DOMAIN response.body |-> response.body[i].template[1]]

SeqToSet(q) == {q[i] : i \in DOMAIN q}

CountsAdd == Context.active_todo_count + Context.completed_todo_count
                 = Context.todo_count

\* The count the list of a context has to agree with, given its filter.
ListedCount ==
    IF Context.filter = "active" THEN Context.active_todo_count
    ELSE IF Context.filter = "completed" THEN Context.completed_todo_count
    ELSE Context.todo_count

ListedStateOk ==
    \A i \in DOMAIN Context.todos :
        /\ Context.filter = "active" => ~Context.todos[i].is_completed
        /\ Context.filter = "completed" => Context.todos[i].is_completed

\* C1 (as claimed): every view context has active_todo_count +
\* completed_todo_count = todo_count, also when other requests change the
\* table between the three count calls.
C1_CountsAlwaysAdd == HasContext => CountsAdd

\* C1 (amended): every view context has active_todo_count +
\* completed_todo_count = todo_count, for every filter, provided no other
\* request changes the table between the first and the last count call.
C1_CountsAddUnlessRaced == (HasContext /\ hist.intf # "count") => CountsAdd

\* A context with both kinds of Todo, built after the table changed under
\* the request, but before its first count.
C1_Witness ==
    /\ HasContext
    /\ hist.intf = "list"
    /\ Context.active_todo_count = 1
    /\ Context.completed_todo_count = 1

\* C10 (as claimed): in every view context the list has as many entries as
\* the count its filter names and every entry has the completion state the
\* filter selects, also when other requests change the table between the
\* list query and the count queries.
C10_ListAlwaysAgrees ==
    HasContext => (Len(Context.todos) = ListedCount /\ ListedStateOk)

\* C10 (amended): in every view context every listed Todo has the
\* completion state the filter selects; and the list has as many entries
\* as the count its filter names provided no other request changes the
\* table between the list query and the last count call.
C10_ListAgreesUnlessRaced ==
    HasContext =>
        /\ ListedStateOk
        /\ hist.intf \notin {"list", "count"} => Len(Context.todos) = ListedCount

\* A filtered list that leaves a Todo out, in a request whose mutation was
\* followed by another request's before its list query.
C10_Witness ==
    /\ HasContext
    /\ hist.intf = "mut"
    /\ Context.filter = "active"
    /\ Len(Context.todos) = 1
    /\ Context.todo_count = 2

\* C2 (as claimed): for a x-filter header that is neither "active" nor
\* "completed" the view context is the one get_context returns for "all":
\* same list, same counts, same filter entry.  Checked on the responses of
\* requests served one at a time.
C2_OtherFiltersAsAll ==
    (HasContext /\ hist.x_filter \notin {Some("active"), Some("completed")}) =>
        LET all == get_context(todos, Some("all"))
        IN  /\ Context.todos = all.todos
            /\ Context.todo_count = all.todo_count
            /\ Context.active_todo_count = all.active_todo_count
            /\ Context.completed_todo_count = all.completed_todo_count
            /\ Context.filter = all.filter

\* C3 (as claimed): every mutating endpoint runs get_context exactly once,
\* after its mutation and before it answers.
C3_MutatorsRecompute ==
    /\ (pc = "done" /\ hist.endpoint \in Mutating) =>
           (hist.ctx_calls = 1 /\ hist.ctx_after)
    /\ response.sent => pc = "done"

\* C3 (amended): every mutating endpoint except edit_todo runs get_context
\* exactly once, after its mutation and before it answers; edit_todo
\* answers without running get_context.
C3_MutatorsButEditRecompute ==
    /\ (pc = "done" /\ hist.endpoint \in Mutating \ {"edit_todo"}) =>
           (hist.ctx_calls = 1 /\ hist.ctx_after)
    /\ (pc = "done" /\ hist.endpoint = "edit_todo") => hist.ctx_calls = 0
    /\ response.sent => pc = "done"

C3_Witness ==
    /\ pc = "done"
    /\ hist.endpoint = "delete_todo"
    /\ response.sent
    /\ Context.todo_count = 1

\* C4 (as claimed): htmx_response fails on its assertion, sending nothing
\* and setting no header, exactly when template and templates_oob are both
\* empty or absent; otherwise it renders every template it was given and
\* sends a text/html response.  (A refusal of the external renderer is not
\* counted against the claim.)
C4_HtmxResponseAnswers ==
    (hist.endpoint = "htmx_response" /\ pc \in {"done", "failed"}) =>
        LET t == hist.call.template
            o == hist.call.templates_oob
        IN  IF ~TruthyStr(t) /\ ~TruthyList(o)
            THEN /\ pc = "failed"
                 /\ frame.error = "AssertionError"
                 /\ response = NoResponse
            ELSE \/ frame.error = "TemplateError"
                 \/ /\ pc = "done"
                    /\ response.sent
                    /\ response.content_type = Some("text/html")
                    /\ Len(response.body) = 1 + (IF IsNone(o) THEN 0 ELSE Len(o[1]))
                    /\ response.body[1].template = t
                    /\ \A i \in 1..(Len(response.body) - 1) :
                           response.body[i + 1].template = Some(o[1][i])

\* C5: the templates rendered into each response are those of the endpoint
\* table: index.jinja for GET index without (or with an empty) HX-Request
\* header and filters, main with one; main, footer for new_todo,
\* complete_todo, delete_todo and delete_completed; main, header, footer
\* for complete_all; none for edit_todo, which echoes the title as text.
C5_TemplatesPerEndpoint ==
    pc = "done" =>
        /\ hist.endpoint = "index" =>
               IF hist.hx_request \in {None, Some("")}
               THEN Rendered = <<IndexPage>>
               ELSE Len(Rendered) = 2 /\ SeqToSet(Rendered) = {Filters, Main}
        /\ hist.endpoint \in {"new_todo", "complete_todo", "delete_todo",
                              "delete_completed"} =>
               Len(Rendered) = 2 /\ SeqToSet(Rendered) = {Main, Footer}
        /\ hist.endpoint = "complete_all" =>
               Len(Rendered) = 3 /\ SeqToSet(Rendered) = {Header, Main, Footer}
        /\ hist.endpoint = "edit_todo" =>
               /\ response.body = <<[text |-> hist.input.title]>>
               /\ response.content_type = Some("text/plain")

C5_Witness ==
    /\ pc = "done"
    /\ hist.endpoint = "complete_all"
    /\ Rendered = <<Main, Header, Footer>>

\* The step in which the followed request's handler starts and makes its
\* service call.
Calls(endpoint) == pc = "idle" /\ hist'.endpoint = endpoint

\* No other request has changed the table since the request's mutation.
Undisturbed == hist.intf = "none"

C6_Counts ==
    /\ Context.completed_todo_count = 0
    /\ Context.todo_count + hist.pre_completed = hist.pre_total

\* The delete_completed call leaves the active Todos, unchanged, and no
\* other.
C6_Call == Calls("delete_completed") => todos' = {t \in todos : ~t.is_completed}

\* C6 (as claimed): the view context a delete_completed request answers
\* with has completed_todo_count = 0 and todo_count = the count before the
\* request minus the number of Todos then completed; the active Todos are
\* left in the table unchanged.
C6_DeleteCompletedCounts ==
    /\ []((pc = "done" /\ hist.endpoint = "delete_completed") => C6_Counts)
    /\ [][C6_Call]_vars

\* C6 (amended): the view context a delete_completed request answers with
\* has completed_todo_count = 0 and todo_count = the count before the
\* request minus the number of Todos then completed, provided no other
\* request changes the table between its delete_completed call and its
\* last count call; and its delete_completed call leaves the active Todos
\* in the table, unchanged, and no other.
C6_DeleteCompletedUndisturbed ==
    /\ []((pc = "done" /\ hist.endpoint = "delete_completed" /\ Undisturbed)
              => C6_Counts)
    /\ [][C6_Call]_vars

\* delete_completed has removed one of two Todos and answered.
C6_Witness ==
    /\ pc = "done"
    /\ hist.endpoint = "delete_completed"
    /\ Undisturbed
    /\ hist.pre_total = 2
    /\ hist.pre_completed = 1
    /\ Context.todo_count = 1

C7_Counts ==
    IF hist.input.completed = Some(TRUE)
    THEN /\ Context.active_todo_count = 0
         /\ Context.completed_todo_count = Context.todo_count
    ELSE Context.completed_todo_count = 0

\* C7 (as claimed): the view context a complete_all request answers with
\* has active_todo_count = 0 and completed_todo_count = todo_count when the
\* body has completed=true, and completed_todo_count = 0 when it has
\* completed=false or no completed field.
C7_CompleteAllCounts ==
    (pc = "done" /\ hist.endpoint = "complete_all") => C7_Counts

\* C7 (amended): the view context a complete_all request answers with has
\* active_todo_count = 0 and completed_todo_count = todo_count when the
\* body has completed=true, and completed_todo_count = 0 when it has
\* completed=false or no completed field, provided no other request changes
\* the table between the request's complete_all call and its last count
\* call.
C7_CompleteAllUndisturbed ==
    (pc = "done" /\ hist.endpoint = "complete_all" /\ Undisturbed) => C7_Counts

\* complete_all without a completed field has reopened two Todos.
C7_Witness ==
    /\ pc = "done"
    /\ hist.endpoint = "complete_all"
    /\ Undisturbed
    /\ hist.input.completed = None
    /\ Context.active_todo_count = 2

\* C8: an edit_todo request leaves the ids, the number of Todos, every
\* Todo but the one its path names, and that one's id and completed flag
\* as they were, whatever id and completed the body carries.
C8_EditChangesTitleOnly ==
    [][Calls("edit_todo") =>
          /\ Ids(todos') = Ids(todos)
          /\ Cardinality(todos') = Cardinality(todos)
          /\ \A t \in todos :
                IF t.id = hist'.input.todo_id
                THEN \E u \in todos' : u.id = t.id /\ u.is_completed = t.is_completed
                ELSE t \in todos']_vars

\* An edit has given the second of two Todos, a completed one, a new title.
C8_Witness ==
    /\ pc = "done"
    /\ hist.endpoint = "edit_todo"
    /\ hist.input = [todo_id |-> 2, title |-> "b", completed |-> None]
    /\ todos = {Todo(1, "a", FALSE), Todo(2, "b", TRUE)}

\* The save call adds exactly one Todo, with the submitted title and the
\* submitted completed flag (false when omitted), and a view context
\* computed right after with filter=active lists it iff it is not completed.
C9_Call ==
    Calls("new_todo") =>
        LET completed == hist'.input.completed = Some(TRUE)
            added == todos' \ todos
            active == get_context(todos', Some("active")).todos
        IN  /\ todos \subseteq todos'
            /\ Cardinality(added) = 1
            /\ \A t \in added :
                  /\ t.title = hist'.input.title
                  /\ t.is_completed = completed
                  /\ t.id \notin Ids(todos)
                  /\ (t \in SeqToSet(active)) <=> ~completed

\* C9 (as claimed): a new_todo request adds exactly one Todo, with the
\* submitted title and completed flag (false when omitted); the view
\* context it answers with has todo_count one greater than before the
\* request; a view context computed right after the save with
\* filter=active lists the new Todo iff it is not completed.
C9_NewTodoCount ==
    /\ []((pc = "done" /\ hist.endpoint = "new_todo")
              => Context.todo_count = hist.pre_total + 1)
    /\ [][C9_Call]_vars

\* C9 (amended): a new_todo request adds exactly one Todo, with the
\* submitted title and completed flag (false when omitted); a view context
\* computed right after the save with filter=active lists the new Todo iff
\* it is not completed; the view context the request answers with has
\* todo_count one greater than before the request provided no other
\* request changes the table between the request's save call and its last
\* count call.
C9_NewTodoUndisturbed ==
    /\ []((pc = "done" /\ hist.endpoint = "new_todo" /\ Undisturbed)
              => Context.todo_count = hist.pre_total + 1)
    /\ [][C9_Call]_vars

\* new_todo has added a completed Todo to a table of one and answered.
C9_Witness ==
    /\ pc = "done"
    /\ hist.endpoint = "new_todo"
    /\ Undisturbed
    /\ hist.pre_total = 1
    /\ Context.todo_count = 2
    /\ Context.completed_todo_count = 1

====
